---------------------------- MODULE Spec2Model ----------------------------
(***************************************************************************)
(* The effect checker of librustc (src/librustc/middle/effect.rs): one     *)
(* visitor that walks the crate once, carrying `unsafe_context`, reporting *)
(* E0133 for an operation that needs `unsafe` in a safe context, E0134 /   *)
(* E0135 for a mutation through an index of a string, and recording in     *)
(* `tcx.used_unsafe` the unsafe blocks whose permission was exercised.     *)
(*                                                                         *)
(* The crate is produced node by node, in the order the generic walker     *)
(* (syntax::visit) hands the nodes to the visitor: every step picks the    *)
(* next node the walker reaches, or returns from the innermost open        *)
(* function or block.  Node ids are handed out in that order.  `stack`     *)
(* holds the open visit_fn and visit_block calls, each with the context it *)
(* saved: the chain of functions and blocks that lexically enclose the     *)
(* walker's position.  visit_expr keeps nothing across walk_expr, so an    *)
(* expression reached inside another one is checked exactly like one that  *)
(* follows it, and the model does not tell the two apart.                  *)
(***************************************************************************)
EXTENDS Integers, Sequences, FiniteSets, TLC

\* Number of nodes of the crates explored: functions, blocks and expressions, not
\* counting the body block every function comes with.
MaxNodes == 4

-----------------------------------------------------------------------------
(* enum UnsafeContext *)
SafeContext == <<"SafeContext">>
UnsafeFn == <<"UnsafeFn">>
UnsafeBlock(block_id) == <<"UnsafeBlock", block_id>>

(* ast::BlockCheckMode, as matched by visit_block *)
DefaultBlock == <<"DefaultBlock">>
UserProvided == "UserProvided"
CompilerGenerated == "CompilerGenerated"
UnsafeBlockRules(source) == <<"UnsafeBlock", source>>
BlockRules == {DefaultBlock, UnsafeBlockRules(UserProvided), UnsafeBlockRules(CompilerGenerated)}

(* visit::FnKind with the unsafety its variant carries; a closure (FkFnBlock) carries none *)
FnKinds ==
    {[kind |-> k, unsafety |-> u] : k \in {"FkItemFn", "FkMethod"}, u \in {"Unsafe", "Normal"}}
    \cup {[kind |-> "FkFnBlock"]}

(* Types, outermost constructor first: <<"ty_uniq", "ty_str">> is ~str. *)
TyUnsafeFn == <<"ty_bare_fn", "Unsafe">>
TyNormalFn == <<"ty_bare_fn", "Normal">>
TyStr == <<"ty_str">>
TyInt == <<"ty_int">>
TyUniq(t) == <<"ty_uniq">> \o t
TyRptr(t) == <<"ty_rptr">> \o t
TyPtr(t) == <<"ty_ptr">> \o t
TyVec(t) == <<"ty_vec">> \o t

(* Targets of the assignments, compound assignments and borrows explored:
   what stands left of `=`, `+=`, or under `&mut`. *)
IndexStr == [node |-> "ExprIndex", base_ty |-> TyStr]
IndexUniqStr == [node |-> "ExprIndex", base_ty |-> TyUniq(TyStr)]
IndexRptrStr == [node |-> "ExprIndex", base_ty |-> TyRptr(TyStr)]
DerefPtr == [node |-> "ExprUnary", op |-> "UnDeref", base_ty |-> TyPtr(TyInt)]
PathStr == [node |-> "ExprPath", def |-> <<"DefLocal">>, ty |-> TyStr]
BaseForms == {IndexStr, IndexUniqStr, IndexRptrStr, DerefPtr, PathStr}

(* The expressions the explored crates are made of. *)
ExprForms ==
    { [node |-> "ExprMethodCall", method_ty |-> TyUnsafeFn],
      [node |-> "ExprCall", base_ty |-> TyUnsafeFn],
      [node |-> "ExprCall", base_ty |-> TyNormalFn],
      DerefPtr,
      [node |-> "ExprUnary", op |-> "UnDeref", base_ty |-> TyRptr(TyInt)],
      [node |-> "ExprInlineAsm"],
      [node |-> "ExprPath", def |-> <<"DefStatic", TRUE>>, ty |-> TyInt],
      [node |-> "ExprPath", def |-> <<"DefStatic", FALSE>>, ty |-> TyInt],
      [node |-> "ExprIndex", base_ty |-> TyVec(TyInt)] }
    \cup {[node |-> "ExprAssign", base |-> b] : b \in {IndexStr, IndexRptrStr, DerefPtr, PathStr}}
    \cup {[node |-> "ExprAssignOp", base |-> IndexUniqStr]}
    \cup {[node |-> "ExprAddrOf", mutbl |-> "MutMutable", base |-> IndexRptrStr],
          [node |-> "ExprAddrOf", mutbl |-> "MutImmutable", base |-> IndexStr]}

-----------------------------------------------------------------------------
VARIABLES
    unsafe_context,   \* EffectCheckVisitor.unsafe_context
    diags,            \* tcx.sess: the diagnostics emitted so far, in order
    used_unsafe,      \* tcx.used_unsafe
    stack,            \* the open visit_fn / visit_block / visit_expr calls, innermost last
    next_id,          \* the ast::NodeId of the next node the walker reaches
    size,             \* how many nodes the walker has reached, function bodies apart
    pc                \* "walking" inside walk_crate, "done" once check_crate has returned

vars == <<unsafe_context, diags, used_unsafe, stack, next_id, size, pc>>

(* The accumulators a check writes to. *)
Sink == [diags |-> diags, used |-> used_unsafe]

-----------------------------------------------------------------------------
(* fn type_is_unsafe_function *)
type_is_unsafe_function(ty) ==
    IF ty[1] = "ty_bare_fn" THEN ty[2] = "Unsafe" ELSE FALSE

(* span_err!(self.tcx.sess, span, code, ...) *)
span_err(sink, span, code, msg) ==
    [sink EXCEPT !.diags = Append(@, [span |-> span, code |-> code, msg |-> msg])]

(* require_unsafe with the SafeContext and UnsafeFn arms exchanged *)
require_unsafe_arms_swapped(ctx, sink, span, description) ==
    CASE ctx = UnsafeFn ->
           span_err(sink, span, "E0133", <<description, "requires unsafe function or block">>)
      [] ctx[1] = "UnsafeBlock" ->
           [sink EXCEPT !.used = @ \cup {ctx[2]}]
      [] ctx = SafeContext -> sink

(* require_unsafe storing the block instead of inserting it: what was recorded is lost *)
require_unsafe_overwrites_used(ctx, sink, span, description) ==
    CASE ctx = SafeContext ->
           span_err(sink, span, "E0133", <<description, "requires unsafe function or block">>)
      [] ctx[1] = "UnsafeBlock" ->
           [sink EXCEPT !.used = {ctx[2]}]
      [] ctx = UnsafeFn -> sink

(* EffectCheckVisitor::require_unsafe *)
require_unsafe(ctx, sink, span, description) ==
    CASE ctx = SafeContext ->
           span_err(sink, span, "E0133", <<description, "requires unsafe function or block">>)
      [] ctx[1] = "UnsafeBlock" ->
           [sink EXCEPT !.used = @ \cup {ctx[2]}]
      [] ctx = UnsafeFn -> sink

(* check_str_index looking through every layer of ~ and &, not only the outermost *)
RECURSIVE StripPointers(_)
StripPointers(ty) ==
    IF ty[1] \in {"ty_uniq", "ty_rptr"} THEN StripPointers(Tail(ty)) ELSE ty

check_str_index_unwraps_all(sink, e_id, e) ==
    IF e.node # "ExprIndex" THEN sink
    ELSE IF StripPointers(e.base_ty) # TyStr THEN sink
    ELSE span_err(sink, e_id, IF e.base_ty = TyStr THEN "E0135" ELSE "E0134",
                  <<"modification of string types is not allowed">>)

(* EffectCheckVisitor::check_str_index; e is the target expression, e_id its node id *)
check_str_index(sink, e_id, e) ==
    IF e.node # "ExprIndex" THEN sink
    ELSE LET base_type == e.base_ty IN
         CASE base_type[1] \in {"ty_uniq", "ty_rptr"} ->
                IF Tail(base_type)[1] = "ty_str"
                THEN span_err(sink, e_id, "E0134", <<"modification of string types is not allowed">>)
                ELSE sink
           [] base_type[1] = "ty_str" ->
                span_err(sink, e_id, "E0135", <<"modification of string types is not allowed">>)
           [] OTHER -> sink

(* visit_expr checking the target of an assignment in SafeContext only *)
visit_expr_str_check_gated(ctx, sink, id, expr) ==
    CASE expr.node = "ExprMethodCall" ->
           IF type_is_unsafe_function(expr.method_ty)
           THEN require_unsafe(ctx, sink, id, "invocation of unsafe method")
           ELSE sink
      [] expr.node = "ExprCall" ->
           IF type_is_unsafe_function(expr.base_ty)
           THEN require_unsafe(ctx, sink, id, "call to unsafe function")
           ELSE sink
      [] expr.node = "ExprUnary" /\ expr.op = "UnDeref" ->
           IF expr.base_ty[1] = "ty_ptr"
           THEN require_unsafe(ctx, sink, id, "dereference of unsafe pointer")
           ELSE sink
      [] expr.node \in {"ExprAssign", "ExprAssignOp"} ->
           IF ctx = SafeContext THEN check_str_index(sink, id + 1, expr.base) ELSE sink
      [] expr.node = "ExprAddrOf" /\ expr.mutbl = "MutMutable" ->
           check_str_index(sink, id + 1, expr.base)
      [] expr.node = "ExprInlineAsm" ->
           require_unsafe(ctx, sink, id, "use of inline assembly")
      [] expr.node = "ExprPath" ->
           IF expr.def = <<"DefStatic", TRUE>>
           THEN require_unsafe(ctx, sink, id, "use of mutable static")
           ELSE sink
      [] OTHER -> sink

(* visit_expr requiring an unsafe context for every dereference, whatever is dereferenced *)
visit_expr_deref_any(ctx, sink, id, expr) ==
    CASE expr.node = "ExprMethodCall" ->
           IF type_is_unsafe_function(expr.method_ty)
           THEN require_unsafe(ctx, sink, id, "invocation of unsafe method")
           ELSE sink
      [] expr.node = "ExprCall" ->
           IF type_is_unsafe_function(expr.base_ty)
           THEN require_unsafe(ctx, sink, id, "call to unsafe function")
           ELSE sink
      [] expr.node = "ExprUnary" /\ expr.op = "UnDeref" ->
           require_unsafe(ctx, sink, id, "dereference of unsafe pointer")
      [] expr.node \in {"ExprAssign", "ExprAssignOp"} ->
           check_str_index(sink, id + 1, expr.base)
      [] expr.node = "ExprAddrOf" /\ expr.mutbl = "MutMutable" ->
           check_str_index(sink, id + 1, expr.base)
      [] expr.node = "ExprInlineAsm" ->
           require_unsafe(ctx, sink, id, "use of inline assembly")
      [] expr.node = "ExprPath" ->
           IF expr.def = <<"DefStatic", TRUE>>
           THEN require_unsafe(ctx, sink, id, "use of mutable static")
           ELSE sink
      [] OTHER -> sink

(* The checks of EffectCheckVisitor::visit_expr, before it walks into the expression.
   The target of an assignment is the node the walker reaches next: its id is id + 1. *)
visit_expr(ctx, sink, id, expr) ==
    CASE expr.node = "ExprMethodCall" ->
           IF type_is_unsafe_function(expr.method_ty)
           THEN require_unsafe(ctx, sink, id, "invocation of unsafe method")
           ELSE sink
      [] expr.node = "ExprCall" ->
           IF type_is_unsafe_function(expr.base_ty)
           THEN require_unsafe(ctx, sink, id, "call to unsafe function")
           ELSE sink
      [] expr.node = "ExprUnary" /\ expr.op = "UnDeref" ->
           IF expr.base_ty[1] = "ty_ptr"
           THEN require_unsafe(ctx, sink, id, "dereference of unsafe pointer")
           ELSE sink
      [] expr.node \in {"ExprAssign", "ExprAssignOp"} ->
           check_str_index(sink, id + 1, expr.base)
      [] expr.node = "ExprAddrOf" /\ expr.mutbl = "MutMutable" ->
           check_str_index(sink, id + 1, expr.base)
      [] expr.node = "ExprInlineAsm" ->
           require_unsafe(ctx, sink, id, "use of inline assembly")
      [] expr.node = "ExprPath" ->
           IF expr.def = <<"DefStatic", TRUE>>
           THEN require_unsafe(ctx, sink, id, "use of mutable static")
           ELSE sink
      [] OTHER -> sink

(* visit_fn taking every function, closures too, for an item-level one *)
visit_fn_context_closure_resets(fn_kind, ctx) ==
    IF fn_kind.kind \in {"FkItemFn", "FkMethod"} /\ fn_kind.unsafety = "Unsafe"
    THEN UnsafeFn
    ELSE SafeContext

(* visit_fn without the `else if is_item_fn` arm: a safe item function keeps the
   context of its surroundings *)
visit_fn_context_no_reset(fn_kind, ctx) ==
    IF fn_kind.kind \in {"FkItemFn", "FkMethod"} /\ fn_kind.unsafety = "Unsafe"
    THEN UnsafeFn
    ELSE ctx

(* visit_fn, lines 89-102: the context the function's body is walked in *)
visit_fn_context(fn_kind, ctx) ==
    LET is_item_fn == fn_kind.kind \in {"FkItemFn", "FkMethod"}
        is_unsafe_fn == is_item_fn /\ fn_kind.unsafety = "Unsafe"
    IN  IF is_unsafe_fn THEN UnsafeFn
        ELSE IF is_item_fn THEN SafeContext
        ELSE ctx

(* visit_block opening a context for every unsafe block, nested user-written ones too *)
visit_block_context_always_new(rules, block_id, ctx) ==
    IF rules = DefaultBlock THEN ctx ELSE UnsafeBlock(block_id)

(* visit_block without the CompilerGenerated case *)
visit_block_context_no_synth(rules, block_id, ctx) ==
    IF rules = DefaultBlock THEN ctx
    ELSE IF ctx = SafeContext THEN UnsafeBlock(block_id) ELSE ctx

(* visit_block opening a context only for synthesized blocks *)
visit_block_context_only_synth(rules, block_id, ctx) ==
    IF rules = DefaultBlock THEN ctx
    ELSE IF rules[2] = CompilerGenerated THEN UnsafeBlock(block_id) ELSE ctx

(* visit_block, lines 111-133: the context the block's contents are walked in *)
visit_block_context(rules, block_id, ctx) ==
    IF rules = DefaultBlock THEN ctx
    ELSE IF ctx = SafeContext \/ rules[2] = CompilerGenerated
         THEN UnsafeBlock(block_id)
         ELSE ctx

(* visit_expr returning right after it has reported an error, before walk_expr *)
walks_into_unless_reported(before, after) == after.diags = before.diags

(* visit_expr line 185: `visit::walk_expr(self, expr)` follows the match whatever the
   match did (before, after: the accumulators before and after the match) *)
walks_into(before, after) == TRUE

(* visit_fn / visit_block returning without the assignment: the context stays *)
restore_context_forgotten(frame) == unsafe_context

(* visit_fn line 106, visit_block line 137: `self.unsafe_context = old_unsafe_context` *)
restore_context(frame) == frame.old_unsafe_context

-----------------------------------------------------------------------------
Top == stack[Len(stack)]

(* Expressions with a target sub-expression, which walk_expr reaches first. *)
HasBase(expr) == expr.node \in {"ExprAssign", "ExprAssignOp", "ExprAddrOf"}

Init ==
    /\ unsafe_context = SafeContext
    /\ diags = <<>>
    /\ used_unsafe = {}
    /\ stack = <<>>
    /\ next_id = 1
    /\ size = 0
    /\ pc = "walking"

(* visit_fn, through visit::walk_fn, into visit_block on the function's body, up to
   the call of visit::walk_block.  The body of a function or closure is a block of
   its own (node next_id + 1) with the rules DefaultBlock. *)
VisitFn(fn_kind) ==
    /\ pc = "walking"
    /\ size < MaxNodes
    /\ LET body_context == visit_fn_context(fn_kind, unsafe_context) IN
         /\ stack' = stack \o
                       <<[kind |-> "fn", id |-> next_id, node |-> fn_kind,
                          old_unsafe_context |-> unsafe_context],
                         [kind |-> "block", id |-> next_id + 1, node |-> DefaultBlock,
                          old_unsafe_context |-> body_context]>>
         /\ unsafe_context' = visit_block_context(DefaultBlock, next_id + 1, body_context)
    /\ next_id' = next_id + 2
    /\ size' = size + 1
    /\ UNCHANGED <<diags, used_unsafe, pc>>

(* visit_block, up to the call of visit::walk_block *)
VisitBlock(rules) ==
    /\ pc = "walking"
    /\ size < MaxNodes
    /\ stack' = Append(stack, [kind |-> "block", id |-> next_id, node |-> rules,
                               old_unsafe_context |-> unsafe_context])
    /\ unsafe_context' = visit_block_context(rules, next_id, unsafe_context)
    /\ next_id' = next_id + 1
    /\ size' = size + 1
    /\ UNCHANGED <<diags, used_unsafe, pc>>

(* visit_expr on an expression without a target sub-expression, up to walk_expr *)
VisitExpr(expr) ==
    /\ pc = "walking"
    /\ ~HasBase(expr)
    /\ size < MaxNodes
    /\ LET out == visit_expr(unsafe_context, Sink, next_id, expr) IN
         /\ diags' = out.diags
         /\ used_unsafe' = out.used
    /\ next_id' = next_id + 1
    /\ size' = size + 1
    /\ UNCHANGED <<unsafe_context, stack, pc>>

(* visit_expr on an assignment, compound assignment or borrow, through walk_expr, and
   visit_expr on its target (node next_id + 1), the first sub-expression walk_expr
   reaches, up to walk_expr *)
VisitExprWithBase(expr) ==
    /\ pc = "walking"
    /\ HasBase(expr)
    /\ size + 1 < MaxNodes
    /\ LET out == visit_expr(unsafe_context, Sink, next_id, expr)
           out_base == visit_expr(unsafe_context, out, next_id + 1, expr.base)
       IN /\ diags' = out_base.diags
          /\ used_unsafe' = out_base.used
    /\ next_id' = next_id + 2
    /\ size' = size + 2
    /\ UNCHANGED <<unsafe_context, stack, pc>>

(* walk_fn / walk_block has returned: the rest of visit_fn / visit_block *)
LeaveScope ==
    /\ pc = "walking"
    /\ stack # <<>>
    /\ unsafe_context' = restore_context(Top)
    /\ stack' = SubSeq(stack, 1, Len(stack) - 1)
    /\ UNCHANGED <<diags, used_unsafe, next_id, size, pc>>

(* walk_crate has returned: check_crate returns *)
Finish ==
    /\ pc = "walking"
    /\ stack = <<>>
    /\ pc' = "done"
    /\ UNCHANGED <<unsafe_context, diags, used_unsafe, stack, next_id, size>>

Next ==
    \/ \E fn_kind \in FnKinds : VisitFn(fn_kind)
    \/ \E rules \in BlockRules : VisitBlock(rules)
    \/ \E expr \in ExprForms : VisitExpr(expr)
    \/ \E expr \in ExprForms : VisitExprWithBase(expr)
    \/ LeaveScope
    \/ Finish

Spec == Init /\ [][Next]_vars

-----------------------------------------------------------------------------
(* Vocabulary of the properties.                                           *)

(* A guarded operation: an operation that needs an unsafe context. *)
Guarded(expr) ==
    \/ expr.node = "ExprCall" /\ expr.base_ty = TyUnsafeFn
    \/ expr.node = "ExprMethodCall" /\ expr.method_ty = TyUnsafeFn
    \/ expr.node = "ExprUnary" /\ expr.op = "UnDeref" /\ expr.base_ty[1] = "ty_ptr"
    \/ expr.node = "ExprInlineAsm"
    \/ expr.node = "ExprPath" /\ expr.def = <<"DefStatic", TRUE>>

(* The description of each kind of guarded operation. *)
Description(expr) ==
    CASE expr.node = "ExprCall" -> "call to unsafe function"
      [] expr.node = "ExprMethodCall" -> "invocation of unsafe method"
      [] expr.node = "ExprUnary" -> "dereference of unsafe pointer"
      [] expr.node = "ExprInlineAsm" -> "use of inline assembly"
      [] expr.node = "ExprPath" -> "use of mutable static"

MissingContext(span, expr) ==
    [span |-> span, code |-> "E0133",
     msg |-> <<Description(expr), "requires unsafe function or block">>]

StringMutation(span, code) ==
    [span |-> span, code |-> code, msg |-> <<"modification of string types is not allowed">>]

(* The step in which the visitor checks expression expr (node next_id) and, if it has
   one, its target (node next_id + 1). *)
Visits(expr) == VisitExpr(expr) \/ VisitExprWithBase(expr)

(* The expression nodes checked in that step: node k of them has id next_id + k - 1. *)
NodesOf(expr) == IF HasBase(expr) THEN <<expr, expr.base>> ELSE <<expr>>

(* The guarded operations checked in that step, as <<offset, expression>>. *)
GuardedIn(expr) ==
    {<<k - 1, NodesOf(expr)[k]>> : k \in {n \in DOMAIN NodesOf(expr) : Guarded(NodesOf(expr)[n])}}

(* The steps that check exactly one guarded operation. *)
GuardedSteps == {expr \in ExprForms : GuardedIn(expr) # {}}
OpOf(expr) == CHOOSE op \in GuardedIn(expr) : TRUE

IsItemFnFrame(f) == f.kind = "fn" /\ f.node.kind \in {"FkItemFn", "FkMethod"}
IsClosureFrame(f) == f.kind = "fn" /\ f.node.kind = "FkFnBlock"
IsUnsafeBlockFrame(f) == f.kind = "block" /\ f.node # DefaultBlock
IsUserUnsafeFrame(f) == f.kind = "block" /\ f.node = UnsafeBlockRules(UserProvided)
IsSynthUnsafeFrame(f) == f.kind = "block" /\ f.node = UnsafeBlockRules(CompilerGenerated)

(* Between the open node at depth i and the walker's position there is no item-level
   function or method and no synthesized unsafe block. *)
DirectlyWithin(i) ==
    \A j \in (i + 1)..Len(stack) :
        ~IsItemFnFrame(stack[j]) /\ ~IsSynthUnsafeFrame(stack[j])

(* Between the open node at depth i and the walker's position there are only default
   blocks and closures: no marker, no item-level function. *)
NoMarkerWithin(i) ==
    \A j \in (i + 1)..Len(stack) :
        ~IsItemFnFrame(stack[j]) /\ ~IsUnsafeBlockFrame(stack[j])

(* The diagnostics with code `code` whose span is node id. *)
DiagsAt(ds, id, code) == {k \in DOMAIN ds : ds[k].span = id /\ ds[k].code = code}

(* The walker stands right behind one expression node, the only content so far of
   the innermost open block, whose id is block_id. *)
OneNodeIn(block_id) == next_id = block_id + 2

-----------------------------------------------------------------------------
(* C1: every guarded operation (unsafe call, unsafe method call, dereference of a raw
   pointer, inline assembly, mutable static) visited while the context is SafeContext
   gets exactly one E0133 diagnostic, on its own node, with the description of its
   kind, appended to the diagnostics, and nothing is inserted into used_unsafe. *)
C1_SafeGuardedOpDiagnosed ==
    [][unsafe_context = SafeContext =>
         \A expr \in GuardedSteps :
            Visits(expr) =>
              LET id == next_id + OpOf(expr)[1] IN
              /\ diags' = Append(diags, MissingContext(id, OpOf(expr)[2]))
              /\ Cardinality(DiagsAt(diags', id, "E0133")) = 1
              /\ used_unsafe' = used_unsafe]_vars

(* A safe item function whose body holds one node, a raw-pointer dereference: it is
   diagnosed and nothing is recorded. *)
C1_Witness ==
    /\ Len(stack) = 2
    /\ IsItemFnFrame(stack[1]) /\ stack[1].node.unsafety = "Normal"
    /\ OneNodeIn(stack[2].id)
    /\ diags = <<MissingContext(3, DerefPtr)>>
    /\ used_unsafe = {}

(* C2: for an unsafe-marked block (user-written or synthesized) entered in SafeContext,
   a guarded operation that is the block's own content (no item-level function and no
   synthesized unsafe block between the block and the operation) emits no diagnostic
   and puts the block's id into used_unsafe, where it stays until the pass finishes. *)
C2_UnsafeBlockUsed ==
    [][/\ \A i \in DOMAIN stack :
            (/\ IsUnsafeBlockFrame(stack[i])
             /\ stack[i].old_unsafe_context = SafeContext
             /\ DirectlyWithin(i))
              => \A expr \in GuardedSteps :
                   Visits(expr) => /\ diags' = diags
                                   /\ stack[i].id \in used_unsafe'
       /\ used_unsafe \subseteq used_unsafe']_vars

(* A user-written unsafe block, entered in SafeContext in the body of a safe function,
   holds one node, a guarded operation: the block is recorded, nothing is diagnosed. *)
C2_Witness ==
    /\ Len(stack) = 3
    /\ IsItemFnFrame(stack[1]) /\ stack[1].node.unsafety = "Normal"
    /\ IsUserUnsafeFrame(stack[3]) /\ stack[3].old_unsafe_context = SafeContext
    /\ OneNodeIn(stack[3].id)
    /\ used_unsafe = {stack[3].id}
    /\ diags = <<>>

(* C3: inside the body of an item-level function or method declared unsafe (at any
   depth, up to the next item-level function) the context is never SafeContext, and
   no guarded operation there adds a diagnostic. *)
InUnsafeItemFn ==
    \E i \in DOMAIN stack :
        /\ IsItemFnFrame(stack[i]) /\ stack[i].node.unsafety = "Unsafe"
        /\ \A j \in (i + 1)..Len(stack) : ~IsItemFnFrame(stack[j])

C3_UnsafeFnNeverSafe ==
    [][/\ InUnsafeItemFn' => unsafe_context' # SafeContext
       /\ InUnsafeItemFn =>
            \A expr \in GuardedSteps : Visits(expr) => diags' = diags]_vars

(* An unsafe method holds a closure that holds a user-written unsafe block with one
   node in it, a guarded operation: the context there is UnsafeFn, nothing is
   diagnosed and nothing recorded. *)
C3_Witness ==
    /\ Len(stack) = 5
    /\ IsItemFnFrame(stack[1]) /\ stack[1].node.kind = "FkMethod"
    /\ InUnsafeItemFn
    /\ IsClosureFrame(stack[3])
    /\ IsUserUnsafeFrame(stack[5])
    /\ OneNodeIn(stack[5].id)
    /\ unsafe_context = UnsafeFn
    /\ used_unsafe = {} /\ diags = <<>>

(* C4: a user-written unsafe block B directly inside a user-written unsafe block A
   that was entered in SafeContext: a guarded operation in B emits no diagnostic and
   inserts A's id and nothing else; B's id is not in used_unsafe while B is open, and
   only ids of open blocks are ever inserted, so it is not there after the pass. *)
C4_NestedUserMarker ==
    [][/\ \A i \in DOMAIN stack :
            (/\ IsUserUnsafeFrame(stack[i])
             /\ i > 1
             /\ IsUserUnsafeFrame(stack[i - 1])
             /\ stack[i - 1].old_unsafe_context = SafeContext)
              => /\ stack[i].id \notin used_unsafe
                 /\ DirectlyWithin(i) =>
                      \A expr \in GuardedSteps :
                         Visits(expr) =>
                           /\ diags' = diags
                           /\ used_unsafe' = used_unsafe \cup {stack[i - 1].id}
                           /\ stack[i].id \notin used_unsafe'
       /\ used_unsafe' \ used_unsafe \subseteq {stack[i].id : i \in DOMAIN stack}]_vars

(* A (entered in SafeContext) holds B, which holds one node, a guarded operation:
   only A is recorded. *)
C4_Witness ==
    /\ Len(stack) = 4
    /\ IsUserUnsafeFrame(stack[3]) /\ stack[3].old_unsafe_context = SafeContext
    /\ IsUserUnsafeFrame(stack[4])
    /\ OneNodeIn(stack[4].id)
    /\ used_unsafe = {stack[3].id}
    /\ diags = <<>>

(* C5: a synthesized (CompilerGenerated) unsafe block S inside a user-written unsafe
   block A: a guarded operation in S (no item-level function and no further synthesized
   block between S and the operation) emits no diagnostic and inserts S's id and
   nothing else, so it does not insert A's id. *)
C5_SynthesizedMarker ==
    [][\A j \in DOMAIN stack :
         (/\ IsSynthUnsafeFrame(stack[j])
          /\ DirectlyWithin(j)
          /\ \E i \in 1..(j - 1) : IsUserUnsafeFrame(stack[i]))
           => \A expr \in GuardedSteps :
                Visits(expr) =>
                  /\ diags' = diags
                  /\ used_unsafe' = used_unsafe \cup {stack[j].id}
                  /\ \A i \in 1..(j - 1) :
                       stack[i].id \in used_unsafe' => stack[i].id \in used_unsafe]_vars

(* A (user-written) holds S (synthesized), which holds one node, a guarded operation:
   only S is recorded. *)
C5_Witness ==
    /\ Len(stack) = 4
    /\ IsUserUnsafeFrame(stack[3])
    /\ IsSynthUnsafeFrame(stack[4])
    /\ OneNodeIn(stack[4].id)
    /\ used_unsafe = {stack[4].id}
    /\ diags = <<>>

(* C6, as stated: an assignment whose left-hand side is a string-typed variable itself,
   inside an unsafe block, yields the diagnostic "modification of string types is not
   allowed" and no E0133 diagnostic. *)
InUnsafeBlock == \E i \in DOMAIN stack : IsUnsafeBlockFrame(stack[i])

AssignTo(base) == [node |-> "ExprAssign", base |-> base]

C6_AssignToStringVariable ==
    [][(InUnsafeBlock /\ Visits(AssignTo(PathStr)))
         => /\ \E k \in DOMAIN diags' :
                 /\ k \notin DOMAIN diags
                 /\ diags'[k].msg = <<"modification of string types is not allowed">>
            /\ \A k \in DOMAIN diags' : k \in DOMAIN diags \/ diags'[k].code # "E0133"]_vars

(* C6, amended: an assignment whose left-hand side indexes a string-typed variable
   (type str itself), inside an unsafe block, yields exactly the diagnostic E0135
   "modification of string types is not allowed", on the index expression, and no E0133
   diagnostic; nothing is recorded for it. *)
C6_AssignToStringIndex ==
    [][(InUnsafeBlock /\ Visits(AssignTo(IndexStr)))
         => /\ diags' = Append(diags, StringMutation(next_id + 1, "E0135"))
            /\ used_unsafe' = used_unsafe]_vars

(* A user-written unsafe block in a safe function holds an assignment (node 4) to an
   index of a string (node 5): E0135 is the one diagnostic. *)
C6_Witness ==
    /\ Len(stack) = 3
    /\ IsUserUnsafeFrame(stack[3])
    /\ next_id = stack[3].id + 3
    /\ diags = <<StringMutation(stack[3].id + 2, "E0135")>>
    /\ used_unsafe = {}

(* C7: entering a closure leaves the context as it is, and a guarded operation inside
   a closure, with no unsafe block and no item-level function between the closure and
   the operation, has the outcome the context at the closure's definition gives:
   one E0133 diagnostic for SafeContext, the insertion of id for UnsafeBlock(id),
   nothing for UnsafeFn. *)
OutcomeIn(ctx, expr) ==
    LET id == next_id + OpOf(expr)[1] IN
    CASE ctx = SafeContext ->
           /\ diags' = Append(diags, MissingContext(id, OpOf(expr)[2]))
           /\ used_unsafe' = used_unsafe
      [] ctx = UnsafeFn ->
           /\ diags' = diags
           /\ used_unsafe' = used_unsafe
      [] OTHER ->
           /\ diags' = diags
           /\ used_unsafe' = used_unsafe \cup {ctx[2]}

C7_ClosureInherits ==
    [][/\ VisitFn([kind |-> "FkFnBlock"]) => unsafe_context' = unsafe_context
       /\ \A i \in DOMAIN stack :
            (IsClosureFrame(stack[i]) /\ NoMarkerWithin(i))
              => \A expr \in GuardedSteps :
                   Visits(expr) => OutcomeIn(stack[i].old_unsafe_context, expr)]_vars

(* A closure in the body of a safe item function holds one node, a guarded operation:
   one E0133 diagnostic. *)
C7_Witness ==
    /\ Len(stack) = 4
    /\ IsItemFnFrame(stack[1]) /\ stack[1].node.unsafety = "Normal"
    /\ IsClosureFrame(stack[3])
    /\ stack[3].old_unsafe_context = SafeContext
    /\ OneNodeIn(stack[4].id)
    /\ Len(diags) = 1 /\ diags[1].code = "E0133" /\ diags[1].span = stack[4].id + 1
    /\ used_unsafe = {}

(* C8: the context is at every moment the one that the entry rules of the open
   functions and blocks give, outermost first, starting from SafeContext: each open
   call has saved the context of its surroundings, and every call that has returned
   has put back the context it found.  It is SafeContext when check_crate returns. *)
RECURSIVE ContextAt(_)
ContextAt(k) ==
    IF k = 0 THEN SafeContext
    ELSE IF stack[k].kind = "fn"
         THEN visit_fn_context(stack[k].node, ContextAt(k - 1))
         ELSE visit_block_context(stack[k].node, stack[k].id, ContextAt(k - 1))

C8_SaveRestore ==
    /\ \A k \in DOMAIN stack : stack[k].old_unsafe_context = ContextAt(k - 1)
    /\ unsafe_context = ContextAt(Len(stack))
    /\ pc = "done" => unsafe_context = SafeContext

(* In the body of a safe function an unsafe block (node 3) with a guarded operation
   (node 4) has been left, and the guarded operation after it (node 5) is diagnosed. *)
C8_Witness ==
    /\ Len(stack) = 2
    /\ IsItemFnFrame(stack[1]) /\ stack[1].node.unsafety = "Normal"
    /\ used_unsafe = {3}
    /\ next_id = 6
    /\ Len(diags) = 1 /\ diags[1].code = "E0133" /\ diags[1].span = 5
    /\ unsafe_context = SafeContext

(* C10: every expression node checked adds one diagnostic if it is a violation (a
   guarded operation checked in SafeContext, an assignment, compound assignment or
   mutable borrow of an index of a string) and none otherwise, in the order of the
   walk; no other step adds one; no two diagnostics are on the same node; and adding
   one does not end the walk or move the visitor. *)
IsStringType(ty) ==
    \/ ty = TyStr
    \/ ty[1] \in {"ty_uniq", "ty_rptr"} /\ Tail(ty) = TyStr

IsStringMutation(expr) ==
    /\ \/ expr.node \in {"ExprAssign", "ExprAssignOp"}
       \/ expr.node = "ExprAddrOf" /\ expr.mutbl = "MutMutable"
    /\ expr.base.node = "ExprIndex"
    /\ IsStringType(expr.base.base_ty)

(* The diagnostics owed to one expression node with id `id`, checked in context ctx. *)
ViolationsOf(ctx, id, expr) ==
    IF Guarded(expr) /\ ctx = SafeContext THEN <<MissingContext(id, expr)>>
    ELSE IF HasBase(expr) /\ IsStringMutation(expr)
         THEN <<StringMutation(id + 1, IF expr.base.base_ty = TyStr THEN "E0135" ELSE "E0134")>>
         ELSE <<>>

ViolationsIn(ctx, expr) ==
    IF HasBase(expr)
    THEN ViolationsOf(ctx, next_id, expr) \o ViolationsOf(ctx, next_id + 1, expr.base)
    ELSE ViolationsOf(ctx, next_id, expr)

C10_EveryViolationReported ==
    [][/\ \A expr \in ExprForms :
            Visits(expr) => diags' = diags \o ViolationsIn(unsafe_context, expr)
       /\ (stack' # stack \/ pc' # pc) => diags' = diags
       /\ diags' # diags => /\ pc' = "walking"
                            /\ stack' = stack
                            /\ unsafe_context' = unsafe_context
       /\ \A k \in DOMAIN diags' : \A m \in DOMAIN diags' :
            diags'[k].span = diags'[m].span => k = m]_vars

(* Three violations in a row in a safe context have each been reported: a guarded
   operation, then a string mutation, then the guarded operation checked after it. *)
C10_Witness ==
    /\ Len(diags) = 3
    /\ diags[1].code = "E0133"
    /\ diags[2].code \in {"E0134", "E0135"}
    /\ diags[3].code = "E0133"
    /\ pc = "done"

-----------------------------------------------------------------------------
(* The open node at depth j lies within a user-written unsafe block. *)
WithinUserMarker(j) == \E i \in 1..(j - 1) : IsUserUnsafeFrame(stack[i])

(* The open node at depth j lies within a user-written unsafe block, with no
   item-level function or method between that block and the node. *)
WithinUserMarkerOfSameFn(j) ==
    \E i \in 1..(j - 1) :
        /\ IsUserUnsafeFrame(stack[i])
        /\ \A k \in (i + 1)..(j - 1) : ~IsItemFnFrame(stack[k])

(* C11, as stated: a user-written unsafe block that lies within another user-written
   unsafe block, whatever stands between the two (item-level functions, closures,
   synthesized blocks), is never inserted into used_unsafe. *)
C11_OnlyOutermostUserMarker ==
    [][/\ \A j \in DOMAIN stack :
            (IsUserUnsafeFrame(stack[j]) /\ WithinUserMarker(j))
              => stack[j].id \notin used_unsafe'
       /\ used_unsafe' \ used_unsafe \subseteq {stack[j].id : j \in DOMAIN stack}]_vars

(* C11, amended: a user-written unsafe block that lies within another user-written
   unsafe block of the same item-level function (closures, default blocks and
   synthesized blocks may stand between the two, an item-level function or method may
   not) is never inserted into used_unsafe: not while it is open, and only ids of
   open blocks are inserted. *)
C11_OutermostUserMarkerOfFn ==
    [][/\ \A j \in DOMAIN stack :
            (IsUserUnsafeFrame(stack[j]) /\ WithinUserMarkerOfSameFn(j))
              => stack[j].id \notin used_unsafe'
       /\ used_unsafe' \ used_unsafe \subseteq {stack[j].id : j \in DOMAIN stack}]_vars

(* A user-written unsafe block A holds a closure whose body holds a user-written
   unsafe block B with one node, a guarded operation: A is recorded, B is not. *)
C11_Witness ==
    /\ Len(stack) = 4
    /\ IsUserUnsafeFrame(stack[1]) /\ stack[1].old_unsafe_context = SafeContext
    /\ IsClosureFrame(stack[2])
    /\ IsUserUnsafeFrame(stack[4])
    /\ OneNodeIn(stack[4].id)
    /\ used_unsafe = {stack[1].id}
    /\ diags = <<>>

-----------------------------------------------------------------------------
ItemFnKinds == {fn_kind \in FnKinds : fn_kind.kind \in {"FkItemFn", "FkMethod"}}

(* C12: entering an item-level function or method sets the context to UnsafeFn if it
   is declared unsafe and to SafeContext otherwise, whatever the context around it;
   and a guarded operation in a safe item-level function (no unsafe block and no
   further item-level function between the function and the operation), whatever the
   function is nested in, gets one E0133 diagnostic and inserts nothing into
   used_unsafe. *)
C12_ItemLevelReset ==
    [][/\ \A fn_kind \in ItemFnKinds :
            VisitFn(fn_kind) =>
              unsafe_context' = IF fn_kind.unsafety = "Unsafe" THEN UnsafeFn ELSE SafeContext
       /\ \A i \in DOMAIN stack :
            (/\ IsItemFnFrame(stack[i])
             /\ stack[i].node.unsafety = "Normal"
             /\ NoMarkerWithin(i))
              => \A expr \in GuardedSteps :
                   Visits(expr) =>
                     /\ diags' = Append(diags, MissingContext(next_id + OpOf(expr)[1], OpOf(expr)[2]))
                     /\ used_unsafe' = used_unsafe]_vars

(* A user-written unsafe block A holds a safe item function whose body holds one node,
   a guarded operation: it is diagnosed and A is not recorded. *)
C12_Witness ==
    /\ Len(stack) = 3
    /\ IsUserUnsafeFrame(stack[1])
    /\ IsItemFnFrame(stack[2]) /\ stack[2].node.unsafety = "Normal"
    /\ stack[2].old_unsafe_context = UnsafeBlock(stack[1].id)
    /\ OneNodeIn(stack[3].id)
    /\ Len(diags) = 1 /\ diags[1].code = "E0133" /\ diags[1].span = stack[3].id + 1
    /\ used_unsafe = {}

-----------------------------------------------------------------------------
(* C13: entering a block sets the context to UnsafeBlock(the block's id) if and only
   if the block is unsafe-marked and the context is SafeContext or the marker is
   synthesized; in every other case the context stays as it is (so also for the
   default block that is a function's body).  Hence a user-written unsafe block
   entered in the context UnsafeFn is never inserted into used_unsafe, while a
   synthesized one entered in UnsafeFn is inserted by a guarded operation that is its
   own content. *)
C13_BlockEntryTransition ==
    [][/\ \A rules \in BlockRules :
            VisitBlock(rules) =>
              LET opens == /\ rules # DefaultBlock
                           /\ (unsafe_context = SafeContext \/ rules[2] = CompilerGenerated)
              IN /\ unsafe_context' = UnsafeBlock(next_id) <=> opens
                 /\ ~opens => unsafe_context' = unsafe_context
       /\ \A fn_kind \in FnKinds :
            VisitFn(fn_kind) => unsafe_context' = visit_fn_context(fn_kind, unsafe_context)
       /\ \A i \in DOMAIN stack :
            /\ (IsUserUnsafeFrame(stack[i]) /\ stack[i].old_unsafe_context = UnsafeFn)
                 => stack[i].id \notin used_unsafe'
            /\ (/\ IsSynthUnsafeFrame(stack[i])
                /\ stack[i].old_unsafe_context = UnsafeFn
                /\ DirectlyWithin(i))
                 => \A expr \in GuardedSteps : Visits(expr) => stack[i].id \in used_unsafe'
       /\ used_unsafe' \ used_unsafe \subseteq {stack[i].id : i \in DOMAIN stack}]_vars

(* In the body of an unsafe item function a user-written unsafe block holds a
   synthesized one, which holds one node, a guarded operation: the synthesized block
   is recorded, the user-written one is not. *)
C13_Witness ==
    /\ Len(stack) = 4
    /\ IsItemFnFrame(stack[1]) /\ stack[1].node.unsafety = "Unsafe"
    /\ IsUserUnsafeFrame(stack[3]) /\ stack[3].old_unsafe_context = UnsafeFn
    /\ IsSynthUnsafeFrame(stack[4]) /\ stack[4].old_unsafe_context = UnsafeFn
    /\ OneNodeIn(stack[4].id)
    /\ unsafe_context = UnsafeBlock(stack[4].id)
    /\ used_unsafe = {stack[4].id}
    /\ diags = <<>>

-----------------------------------------------------------------------------
StringMutationSteps == {expr \in ExprForms : HasBase(expr) /\ IsStringMutation(expr)}

(* C14: an assignment, compound assignment or mutable borrow whose target indexes a
   string (str, ~str or &str) appends exactly one diagnostic "modification of string
   types is not allowed", on the target, whatever the context is (SafeContext,
   UnsafeFn or UnsafeBlock(id)); its code is not E0133; and the step inserts nothing
   into used_unsafe, nor does it change the context. *)
C14_StringCheckContextFree ==
    [][\A expr \in StringMutationSteps :
         Visits(expr) =>
           /\ \E code \in {"E0134", "E0135"} :
                /\ code # "E0133"
                /\ diags' = Append(diags, StringMutation(next_id + 1, code))
           /\ used_unsafe' = used_unsafe
           /\ unsafe_context' = unsafe_context]_vars

(* A user-written unsafe block, entered in SafeContext, holds a compound assignment
   to an index of a ~str and nothing else: E0134 is reported in the context
   UnsafeBlock and the block is not recorded. *)
C14_Witness ==
    /\ Len(stack) = 1
    /\ IsUserUnsafeFrame(stack[1])
    /\ unsafe_context = UnsafeBlock(stack[1].id)
    /\ next_id = stack[1].id + 3
    /\ diags = <<StringMutation(stack[1].id + 2, "E0134")>>
    /\ used_unsafe = {}

-----------------------------------------------------------------------------
(* check_str_index over a range of base types.                                *)

\* Layers of type constructors around str or int in the base types explored.
MaxTyDepth == 2

(* The types of at most d layers of ~, &, * and [] around str or int. *)
RECURSIVE TypesUpTo(_)
TypesUpTo(d) ==
    IF d = 0 THEN {TyStr, TyInt}
    ELSE LET inner == TypesUpTo(d - 1) IN
         inner \cup {TyUniq(t) : t \in inner} \cup {TyRptr(t) : t \in inner}
               \cup {TyPtr(t) : t \in inner} \cup {TyVec(t) : t \in inner}

(* The assignments, compound assignments and mutable borrows whose target is an
   index expression over a base of one of these types. *)
StrIndexForms ==
    LET targets == {[node |-> "ExprIndex", base_ty |-> t] : t \in TypesUpTo(MaxTyDepth)} IN
    {[node |-> "ExprAssign", base |-> b] : b \in targets}
    \cup {[node |-> "ExprAssignOp", base |-> b] : b \in targets}
    \cup {[node |-> "ExprAddrOf", mutbl |-> "MutMutable", base |-> b] : b \in targets}

(* The walker, at the crate root, has called visit_expr on one of these expressions
   (node 1, its target node 2): the open call is the one frame of the stack. *)
StrInit ==
    /\ unsafe_context = SafeContext
    /\ diags = <<>>
    /\ used_unsafe = {}
    /\ stack \in {<<[kind |-> "expr", id |-> 1, node |-> expr]>> : expr \in StrIndexForms}
    /\ next_id = 2
    /\ size = 1
    /\ pc = "walking"

(* visit_expr on that expression, through check_str_index on its target *)
VisitStrIndex ==
    /\ pc = "walking"
    /\ Top.kind = "expr"
    /\ LET out == visit_expr(unsafe_context, Sink, Top.id, Top.node) IN
         /\ diags' = out.diags
         /\ used_unsafe' = out.used
    /\ pc' = "done"
    /\ UNCHANGED <<unsafe_context, stack, next_id, size>>

StrNext == VisitStrIndex

SpecStr == StrInit /\ [][StrNext]_vars

(* C15: once the assignment, compound assignment or mutable borrow has been checked,
   there is a diagnostic (one, "modification of string types is not allowed", on the
   target) exactly if the type of the target's base is str, ~str or &str: none for two
   or more layers of ~ / &, none for a raw pointer to str, none for a type that is
   not a string. *)
C15_OneLayerUnwrapped ==
    pc = "done" =>
      LET base_type == Top.node.base.base_ty IN
      IF base_type \in {TyStr, TyUniq(TyStr), TyRptr(TyStr)}
      THEN /\ Len(diags) = 1
           /\ diags[1].span = Top.id + 1
           /\ diags[1].msg = <<"modification of string types is not allowed">>
      ELSE diags = <<>>

(* A compound assignment to an index of a ~~str has been checked: no diagnostic. *)
C15_Witness ==
    /\ pc = "done"
    /\ Len(stack) = 1 /\ Top.kind = "expr"
    /\ Top.node.node = "ExprAssignOp"
    /\ Top.node.base.base_ty = TyUniq(TyUniq(TyStr))
    /\ diags = <<>>

-----------------------------------------------------------------------------
(* The walk over a given crate.  check_crate hands the visitor to                *)
(* visit::walk_crate; walk_crate, walk_fn, walk_block and walk_expr (libsyntax)  *)
(* call the visitor on each child of the node they are given, in order, once.    *)
(* Here the crate is given beforehand: the frame of walk_crate holds it, and     *)
(* every open call holds the children of its node and how many of them it has    *)
(* handed to the visitor (`at`).                                                 *)

\* Number of nodes of the crates walked: functions (with their body), blocks, expressions.
MaxWalkNodes == 3

WalkForms ==
    {[kind |-> "fn", node |-> fn_kind] :
        fn_kind \in {[kind |-> "FkItemFn", unsafety |-> "Normal"], [kind |-> "FkFnBlock"]}}
    \cup {[kind |-> "block", node |-> rules] :
            rules \in {DefaultBlock, UnsafeBlockRules(UserProvided)}}
    \cup {[kind |-> "expr", node |-> expr] :
            expr \in {[node |-> "ExprCall", base_ty |-> TyUnsafeFn],
                      [node |-> "ExprCall", base_ty |-> TyNormalFn]}}

(* The trees of n nodes, and the sequences of trees of n nodes in all. *)
RECURSIVE Forests(_)
Trees(n) == {[form |-> f, children |-> c] : f \in WalkForms, c \in Forests(n - 1)}
Forests(n) ==
    IF n = 0 THEN {<<>>}
    ELSE UNION {{<<t>> \o rest : t \in Trees(k), rest \in Forests(n - k)} : k \in 1..n}

Crates == UNION {Forests(n) : n \in 0..MaxWalkNodes}

(* The frame of an open call on a node with these children. *)
WalkFrame(kind, id, node, ctx, children) ==
    [kind |-> kind, id |-> id, node |-> node, old_unsafe_context |-> ctx,
     children |-> children, at |-> 0]

(* The next child the innermost open call hands to the visitor. *)
HasNextChild == Top.at < Len(Top.children)
NextChild == Top.children[Top.at + 1]
Advanced == [stack EXCEPT ![Len(stack)].at = @ + 1]

WalkInit ==
    /\ unsafe_context = SafeContext
    /\ diags = <<>>
    /\ used_unsafe = {}
    /\ stack \in {<<WalkFrame("crate", 0, <<"Crate">>, SafeContext, krate)>> : krate \in Crates}
    /\ next_id = 1
    /\ size = 0
    /\ pc = "walking"

(* visit_fn, through walk_fn, into visit_block on the body, up to walk_block *)
WalkVisitFn ==
    /\ pc = "walking"
    /\ HasNextChild
    /\ NextChild.form.kind = "fn"
    /\ LET fn_kind == NextChild.form.node
           body_context == visit_fn_context(fn_kind, unsafe_context)
       IN /\ stack' = Advanced \o
                        <<WalkFrame("fn", next_id, fn_kind, unsafe_context, <<>>),
                          WalkFrame("block", next_id + 1, DefaultBlock, body_context,
                                    NextChild.children)>>
          /\ unsafe_context' = visit_block_context(DefaultBlock, next_id + 1, body_context)
    /\ next_id' = next_id + 2
    /\ size' = size + 1
    /\ UNCHANGED <<diags, used_unsafe, pc>>

(* visit_block, up to walk_block *)
WalkVisitBlock ==
    /\ pc = "walking"
    /\ HasNextChild
    /\ NextChild.form.kind = "block"
    /\ stack' = Append(Advanced, WalkFrame("block", next_id, NextChild.form.node,
                                           unsafe_context, NextChild.children))
    /\ unsafe_context' = visit_block_context(NextChild.form.node, next_id, unsafe_context)
    /\ next_id' = next_id + 1
    /\ size' = size + 1
    /\ UNCHANGED <<diags, used_unsafe, pc>>

(* visit_expr, up to walk_expr *)
WalkVisitExpr ==
    /\ pc = "walking"
    /\ HasNextChild
    /\ NextChild.form.kind = "expr"
    /\ LET out == visit_expr(unsafe_context, Sink, next_id, NextChild.form.node) IN
         /\ diags' = out.diags
         /\ used_unsafe' = out.used
         /\ stack' = Append(Advanced,
                            WalkFrame("expr", next_id, NextChild.form.node, unsafe_context,
                                      IF walks_into(Sink, out) THEN NextChild.children ELSE <<>>))
    /\ next_id' = next_id + 1
    /\ size' = size + 1
    /\ UNCHANGED <<unsafe_context, pc>>

(* walk_fn / walk_block / walk_expr has handed over every child and returns; visit_fn
   and visit_block then put the saved context back, visit_expr just returns *)
WalkReturn ==
    /\ pc = "walking"
    /\ ~HasNextChild
    /\ Top.kind # "crate"
    /\ unsafe_context' = IF Top.kind = "expr" THEN unsafe_context ELSE restore_context(Top)
    /\ stack' = SubSeq(stack, 1, Len(stack) - 1)
    /\ UNCHANGED <<diags, used_unsafe, next_id, size, pc>>

(* walk_crate has handed over every item: check_crate returns *)
WalkFinish ==
    /\ pc = "walking"
    /\ ~HasNextChild
    /\ Top.kind = "crate"
    /\ pc' = "done"
    /\ UNCHANGED <<unsafe_context, diags, used_unsafe, stack, next_id, size>>

WalkNext ==
    \/ WalkVisitFn
    \/ WalkVisitBlock
    \/ WalkVisitExpr
    \/ WalkReturn
    \/ WalkFinish

(* check_crate runs on its own thread of control and is never suspended for good. *)
SpecWalk == WalkInit /\ [][WalkNext]_vars /\ WF_vars(WalkNext)

(* The crate being walked, and its nodes in the order of a top-down, left-to-right
   walk; a node is named by its path: the positions, from the crate down, of the
   children that lead to it. *)
Krate == stack[1].children

RECURSIVE PathsFrom(_, _, _)
PathsFrom(forest, prefix, i) ==
    IF i > Len(forest) THEN <<>>
    ELSE <<Append(prefix, i)>>
         \o PathsFrom(forest[i].children, Append(prefix, i), 1)
         \o PathsFrom(forest, prefix, i + 1)

NodePaths == PathsFrom(Krate, <<>>, 1)

(* The path of the node the walker has handed over last, given the calls open at
   that moment (a function's own frame has no children: its body's frame has them). *)
RECURSIVE PathOf(_)
PathOf(frames) ==
    IF frames = <<>> THEN <<>>
    ELSE LET f == frames[Len(frames)]
             outer == PathOf(SubSeq(frames, 1, Len(frames) - 1))
         IN IF f.kind = "fn" THEN outer ELSE Append(outer, f.at)

(* C16: the walk of every crate ends, check_crate returns, and by then every
   function, block and expression of the crate has been handed to the visitor exactly
   once: the k-th node handed over is the k-th node of the crate in top-down order
   (so no node comes twice), and all of them have been handed over at the end,
   however many diagnostics were reported on the way. *)
C16_WalkCompletes ==
    /\ [][size' # size =>
            /\ size' = size + 1
            /\ size' \in DOMAIN NodePaths
            /\ PathOf(SubSeq(stack', 1, Len(stack))) = NodePaths[size']]_vars
    /\ <>(pc = "done" /\ size = Len(NodePaths))

(* The walk of a crate of three nested nodes, a function in a safe context holding
   an unsafe call that holds another one, has ended with both calls visited and
   diagnosed. *)
C16_Witness ==
    /\ pc = "done"
    /\ Len(Krate) = 1 /\ Krate[1].form.kind = "fn"
    /\ Len(Krate[1].children) = 1 /\ Len(Krate[1].children[1].children) = 1
    /\ size = 3
    /\ Len(diags) = 2

-----------------------------------------------------------------------------
(* The steps in which require_unsafe or check_str_index runs on something it acts
   on: a guarded operation, or a mutation through an index expression. *)
CallsACheck(expr) ==
    \/ GuardedIn(expr) # {}
    \/ HasBase(expr) /\ IsStringMutation(expr)

(* C17: in every step the diagnostics already emitted stay, in their order, at the
   front of diags, and everything in used_unsafe stays in it; a step that changes one
   of the two is the check of an expression on which require_unsafe or
   check_str_index runs; entering or leaving a function or block, and the return of
   check_crate, change neither. *)
C17_AccumulatorsGrow ==
    [][/\ Len(diags) <= Len(diags')
       /\ SubSeq(diags', 1, Len(diags)) = diags
       /\ used_unsafe \subseteq used_unsafe'
       /\ (diags' # diags \/ used_unsafe' # used_unsafe)
            => \E expr \in ExprForms : CallsACheck(expr) /\ Visits(expr)
       /\ (stack' # stack \/ pc' # pc)
            => (diags' = diags /\ used_unsafe' = used_unsafe)]_vars

(* A user-written unsafe block (node 1) with a guarded operation has been left, a
   second one (node 3) with a guarded operation too, and check_crate has returned:
   both blocks are recorded. *)
C17_Witness ==
    /\ pc = "done"
    /\ stack = <<>>
    /\ used_unsafe = {1, 3}
    /\ diags = <<>>

-----------------------------------------------------------------------------
(* The open functions and blocks that decide the context: item-level functions and
   methods, and unsafe-marked blocks.  Closures and default blocks do not. *)
Deciders == {i \in DOMAIN stack : IsItemFnFrame(stack[i]) \/ IsUnsafeBlockFrame(stack[i])}

(* Walking outward from the walker's position, a safe item-level function or method,
   or the crate root, comes before any unsafe-marked block and any unsafe item-level
   function. *)
LexicallySafe ==
    \/ Deciders = {}
    \/ LET nearest == CHOOSE i \in Deciders : \A j \in Deciders : j <= i IN
       IsItemFnFrame(stack[nearest]) /\ stack[nearest].node.unsafety = "Normal"

(* C18: a guarded operation gets its E0133 diagnostic if and only if it is lexically
   safe in the sense above, and no diagnostic otherwise; and what it does to diags and
   used_unsafe is what the context computed from the chain of open functions and
   blocks alone gives, whatever was visited before. *)
C18_LexicalOutcome ==
    [][\A expr \in GuardedSteps :
         Visits(expr) =>
           /\ IF LexicallySafe
              THEN diags' = Append(diags, MissingContext(next_id + OpOf(expr)[1], OpOf(expr)[2]))
              ELSE diags' = diags
           /\ OutcomeIn(ContextAt(Len(stack)), expr)]_vars

(* A user-written unsafe block (node 1) with a guarded operation has been left; a
   closure at the crate root, visited after it, holds one node, a guarded operation,
   which is diagnosed. *)
C18_Witness ==
    /\ Len(stack) = 2
    /\ IsClosureFrame(stack[1])
    /\ LexicallySafe
    /\ OneNodeIn(stack[2].id)
    /\ used_unsafe = {1}
    /\ Len(diags) = 1 /\ diags[1].code = "E0133" /\ diags[1].span = stack[2].id + 1

-----------------------------------------------------------------------------
(* The open unsafe-marked blocks with no item-level function or method between them
   and the walker's position. *)
MarkersOfThisFn ==
    {i \in DOMAIN stack :
        /\ IsUnsafeBlockFrame(stack[i])
        /\ \A j \in (i + 1)..Len(stack) : ~IsItemFnFrame(stack[j])}

(* C19: used_unsafe holds only ids of nodes already visited, and an id enters it only
   in a step that checks a guarded operation, and is then the id of an unsafe-marked
   block (not of a default block, not of a function) that is open at that moment,
   so encloses the operation, with no item-level function between the two.  As
   nothing else inserts, a block without a guarded operation is never recorded. *)
C19_UsedSetSound ==
    [][/\ \A id \in used_unsafe' : id < next_id
       /\ \A id \in used_unsafe' \ used_unsafe :
            /\ \E i \in MarkersOfThisFn : stack[i].id = id
            /\ \E expr \in GuardedSteps : Visits(expr)]_vars

(* A user-written unsafe block holds a closure whose body holds one node, a guarded
   operation: the block, which encloses it through the closure, is recorded. *)
C19_Witness ==
    /\ Len(stack) = 3
    /\ IsUserUnsafeFrame(stack[1])
    /\ IsClosureFrame(stack[2])
    /\ OneNodeIn(stack[3].id)
    /\ used_unsafe = {stack[1].id}
    /\ diags = <<>>

-----------------------------------------------------------------------------
(* C20: the check of a guarded operation does exactly one of three things, by the
   context it runs in: in SafeContext it appends one diagnostic (E0133, on the
   operation) and inserts nothing; in UnsafeBlock(id) it inserts id, nothing else, and
   appends nothing; in UnsafeFn it does neither.  It never both reports and records,
   and it leaves the context, and the open functions and blocks, as they are. *)
C20_ThreeWayExclusive ==
    [][\A expr \in GuardedSteps :
         Visits(expr) =>
           /\ Cardinality({c \in {SafeContext[1], UnsafeFn[1], "UnsafeBlock"} :
                             unsafe_context[1] = c}) = 1
           /\ unsafe_context = SafeContext =>
                /\ Len(diags') = Len(diags) + 1
                /\ diags'[Len(diags')].code = "E0133"
                /\ diags'[Len(diags')].span = next_id + OpOf(expr)[1]
                /\ used_unsafe' = used_unsafe
           /\ unsafe_context[1] = "UnsafeBlock" =>
                /\ diags' = diags
                /\ used_unsafe' = used_unsafe \cup {unsafe_context[2]}
           /\ unsafe_context = UnsafeFn =>
                /\ diags' = diags
                /\ used_unsafe' = used_unsafe
           /\ ~(diags' # diags /\ used_unsafe' # used_unsafe)
           /\ unsafe_context' = unsafe_context
           /\ stack' = stack]_vars

(* A guarded operation at the crate root (node 1) has been diagnosed, and one in the
   user-written unsafe block after it (node 2) has recorded the block. *)
C20_Witness ==
    /\ Len(stack) = 1
    /\ IsUserUnsafeFrame(stack[1]) /\ stack[1].id = 2
    /\ unsafe_context = UnsafeBlock(2)
    /\ next_id = 4
    /\ Len(diags) = 1 /\ diags[1].code = "E0133" /\ diags[1].span = 1
    /\ used_unsafe = {2}

=============================================================================
